---------------------------- MODULE Spec2Model ----------------------------
(***************************************************************************)
(* rustic-canvas (src/src/main.rs): a pool of countable tools shared by    *)
(* artist threads.  Every artist snapshots the pool under the pool mutex,  *)
(* picks a random subset, then, under the registry mutex, appends a record *)
(* to the registry log and withdraws the chosen tools under the pool mutex.*)
(*                                                                         *)
(* Spec      the threaded program (main, artis_task) for the configurations*)
(*           (TOTAL_ARTISTS, number of tools, TOTAL_ITEMS >= 1) of size at *)
(*           most MaxExtra.                                                *)
(* FairSpec  the threaded program on pools of MIN_REQUIRED_TOOLS kinds,    *)
(*           with a scheduler that keeps running a thread that can run.    *)
(* SpecBrush the threaded program on a pool holding "brush" at stock 10,   *)
(*           with 5 artists.                                               *)
(* SpecZero  the threaded program when TOTAL_ITEMS may be 0.               *)
(* SpecPanic SpecZero where tools_usage may also panic.                    *)
(* SpecPoison Spec where tools_usage may panic.                            *)
(* SpecAmple the threaded program with n artists on a stock of n or n + 1, *)
(*           and the program with the constants as shipped.                *)
(* SpecUnit  direct calls of take_out_resources and tool_registry on one   *)
(*           pool of at most MIN_REQUIRED_TOOLS tools, each with a stock   *)
(*           of at most MIN_REQUIRED_TOOLS, and one registry, as the unit  *)
(*           tests make them.                                              *)
(***************************************************************************)
EXTENDS Integers, Sequences, FiniteSets, TLC

\* Bounds of the model.
\* A configuration of the threaded program has MaxExtra units to spend on
\* artists beyond one, kinds beyond MIN_REQUIRED_TOOLS and stock beyond one.
MaxExtra == 2
\* Direct calls pass at most MaxLen names and are cut off after MaxCalls
\* records or printed lines.
MaxLen == 2
MaxCalls == 2
\* usize is modelled UsizeBits wide: counts are taken modulo 2^UsizeBits.
UsizeBits == 4

\* main.rs:11-12
MIN_REQUIRED_TOOLS == 2
MAX_ALLOWED_TOOLS == 5

VARIABLES
    tools,            \* SharedResources.tools: sequence of <<name, quantity>>
    initial,          \* the pool SharedResources::default() built
    log,              \* ArtistToolRegistry.artist_tool_preferences
    resLock,          \* holder of Mutex<SharedResources>, or NoOne
    resPoisoned,      \* poison flag of Mutex<SharedResources>
    regLock,          \* holder of Mutex<ArtistToolRegistry>, or NoOne
    regPoisoned,      \* poison flag of Mutex<ArtistToolRegistry>
    pc,               \* position of every artist thread
    artist_tools,     \* artis_task's local artist_tools.1
    main,             \* position of main: [pc, i]
    total_artists,    \* TOTAL_ARTISTS of the build
    overflow_checks,  \* TRUE in a debug build: usize underflow panics
    stdout,           \* the Warning and Error lines printed so far
    last              \* the latest direct call: its arguments and pre-state

vars == <<tools, initial, log, resLock, resPoisoned, regLock, regPoisoned, pc,
          artist_tools, main, total_artists, overflow_checks, stdout, last>>

NoOne == -1
Max(a, b) == IF a > b THEN a ELSE b
\* Thread ids: enough for MaxExtra + 1 artists and for the five of SpecBrush.
Artists == 0 .. (Max(MaxExtra + 1, 5) - 1)

\* The names of SharedResources::default().tools, in order.
ToolNames ==
    <<"brush", "palette", "canvas", "eraser", "sponges", "roller",
      "sculpting tool", "water container", "rags", "tape">>

UsizeModulus == 2 ^ UsizeBits

Min(a, b) == IF a < b THEN a ELSE b

\* SharedResources::default().tools with `kinds` entries of stock `items`.
DefaultTools(kinds, items) == [i \in 1 .. kinds |-> <<ToolNames[i], items>>]

-----------------------------------------------------------------------------
(* SharedResources::take_out_resources *)

\* self.tools.iter().position(|(name, _)| *name == tool); 0 stands for None.
Position(ts, tool) ==
    IF \E i \in 1 .. Len(ts) : ts[i][1] = tool
    THEN CHOOSE i \in 1 .. Len(ts) :
            /\ ts[i][1] = tool
            /\ \A j \in 1 .. (i - 1) : ts[j][1] # tool
    ELSE 0

\* Mutant of Remove: pop() instead of remove(pos).
RemoveLast(ts, pos) == SubSeq(ts, 1, Len(ts) - 1)

\* Vec::remove(pos)
Remove(ts, pos) == [i \in 1 .. (Len(ts) - 1) |-> IF i < pos THEN ts[i] ELSE ts[i + 1]]

\* *quantity -= 1 on a usize, when it does not panic
Decrement(q) == (q + UsizeModulus - 1) % UsizeModulus

\* Mutant of TakeOutOne: the decrement is made on a copy of the entry, so a
\* count that stays positive is not written back.
TakeOutOneLost(st, tool, checks) ==
    IF st.panicked THEN st
    ELSE LET pos == Position(st.tools, tool) IN
         IF pos # 0
         THEN LET quantity == st.tools[pos][2] IN
              IF quantity = 0 /\ checks
              THEN [st EXCEPT !.panicked = TRUE]
              ELSE LET q == Decrement(quantity) IN
                   IF q = 0
                   THEN [st EXCEPT !.tools = Remove(st.tools, pos)]
                   ELSE st
         ELSE [st EXCEPT !.out = Append(st.out, [msg |-> "Warning", tool |-> tool])]

\* Mutant of TakeOutOne: a name that is not found falls back to the first
\* entry (position(..).unwrap_or(0)).
TakeOutOneFirst(st, tool, checks) ==
    IF st.panicked THEN st
    ELSE LET found == Position(st.tools, tool)
             pos == IF found = 0 /\ Len(st.tools) > 0 THEN 1 ELSE found
         IN
         IF pos # 0
         THEN LET quantity == st.tools[pos][2] IN
              IF quantity = 0 /\ checks
              THEN [st EXCEPT !.panicked = TRUE]
              ELSE LET q == Decrement(quantity) IN
                   IF q = 0
                   THEN [st EXCEPT !.tools = Remove(st.tools, pos)]
                   ELSE [st EXCEPT !.tools[pos] = <<st.tools[pos][1], q>>]
         ELSE [st EXCEPT !.out = Append(st.out, [msg |-> "Warning", tool |-> tool])]

\* One iteration of the loop of take_out_resources over st = [tools, out, panicked].
TakeOutOne(st, tool, checks) ==
    IF st.panicked THEN st
    ELSE LET pos == Position(st.tools, tool) IN
         IF pos # 0
         THEN LET quantity == st.tools[pos][2] IN
              IF quantity = 0 /\ checks
              THEN [st EXCEPT !.panicked = TRUE]
              ELSE LET q == Decrement(quantity) IN
                   IF q = 0
                   THEN [st EXCEPT !.tools = Remove(st.tools, pos)]
                   ELSE [st EXCEPT !.tools[pos] = <<tool, q>>]
         ELSE [st EXCEPT !.out = Append(st.out, [msg |-> "Warning", tool |-> tool])]

RECURSIVE TakeOutLoopBreak(_, _, _)
RECURSIVE TakeOutLoop(_, _, _)
\* Mutant of TakeOutLoop: the loop is left at the first name that is not found.
TakeOutLoopBreak(st, names, checks) ==
    IF names = <<>> THEN st
    ELSE IF Position(st.tools, Head(names)) = 0
         THEN TakeOutOne(st, Head(names), checks)
         ELSE TakeOutLoopBreak(TakeOutOne(st, Head(names), checks), Tail(names), checks)

\* for tool in tools { .. }
TakeOutLoop(st, names, checks) ==
    IF names = <<>> THEN st
    ELSE TakeOutLoop(TakeOutOne(st, Head(names), checks), Tail(names), checks)

\* take_out_resources(&mut self, tools): the pool left, the lines printed, and
\* whether the call panicked on an underflow.
take_out_resources(ts, names, checks) ==
    TakeOutLoop([tools |-> ts, out |-> <<>>, panicked |-> FALSE], names, checks)

-----------------------------------------------------------------------------
(* tools_usage *)

\* Mutant of choose_multiple: an entry may be chosen more than once.
ChooseWithRepeats(ts, amount) ==
    LET k == Min(amount, Len(ts)) IN
    { [i \in 1 .. k |-> ts[f[i]]] : f \in [1 .. k -> 1 .. Len(ts)] }

\* tools.choose_multiple(&mut rng, amount): min(amount, len) distinct entries,
\* in any order.
choose_multiple(ts, amount) ==
    LET k == Min(amount, Len(ts)) IN
    { [i \in 1 .. k |-> ts[f[i]]] :
        f \in { g \in [1 .. k -> 1 .. Len(ts)] :
                  \A i, j \in 1 .. k : i # j => g[i] # g[j] } }

\* tools_usage(id, tools): every (id, string_values) the call can return.
tools_usage(id, ts) ==
    { <<id, [i \in 1 .. Len(sel) |-> sel[i][1]]>> :
        sel \in UNION { choose_multiple(ts, tool_count) :
                          tool_count \in MIN_REQUIRED_TOOLS .. MAX_ALLOWED_TOOLS } }

-----------------------------------------------------------------------------
(* ArtistToolRegistry *)

\* Mutant of Preferences: the state is left out of the pushed record.
PreferencesNoState(id, names) ==
    [artist_id |-> id, preferred_tools |-> names, datetime |-> "Some", state |-> "None"]

\* Mutant of Preferences: the id of ArtistToolPreferences::default() is kept.
PreferencesDefaultId(id, names) ==
    [artist_id |-> 0, preferred_tools |-> names, datetime |-> "Some", state |-> "TakeOut"]

\* The record tool_registry pushes.
Preferences(id, names) ==
    [artist_id |-> id, preferred_tools |-> names, datetime |-> "Some", state |-> "TakeOut"]

NoCall == [op |-> "none", id |-> 0, names |-> <<>>, tools |-> <<>>, log |-> <<>>,
           stdout |-> <<>>]

-----------------------------------------------------------------------------
(* main and artis_task *)

InitThreads(pool, n) ==
    /\ tools = pool
    /\ initial = pool
    /\ log = <<>>
    /\ resLock = NoOne
    /\ resPoisoned = FALSE
    /\ regLock = NoOne
    /\ regPoisoned = FALSE
    /\ pc = [a \in Artists |-> "unspawned"]
    /\ artist_tools = [a \in Artists |-> <<>>]
    /\ main = [pc |-> "spawn", i |-> 0]
    /\ total_artists = n
    /\ overflow_checks \in BOOLEAN
    /\ stdout = <<>>
    /\ last = NoCall

\* The configurations <<TOTAL_ARTISTS, number of tools, TOTAL_ITEMS>> with at
\* least one artist, enough tools for a selection of MIN_REQUIRED_TOOLS, a
\* stock of at least min_items, and a size of at most MaxExtra.
Configs(min_items) ==
    { c \in (1 .. (MaxExtra + 1)) \X
            (MIN_REQUIRED_TOOLS .. (MIN_REQUIRED_TOOLS + MaxExtra)) \X
            (min_items .. (min_items + MaxExtra)) :
        (c[1] - 1) + (c[2] - MIN_REQUIRED_TOOLS) + (c[3] - min_items) <= MaxExtra }

Init == \E c \in Configs(1) : InitThreads(DefaultTools(c[2], c[3]), c[1])

\* main: thread::spawn for the next id, then on to the join loop.
Spawn ==
    /\ main.pc = "spawn"
    /\ IF main.i < total_artists
       THEN /\ pc' = [pc EXCEPT ![main.i] = "start"]
            /\ main' = [main EXCEPT !.i = main.i + 1]
       ELSE /\ main' = [pc |-> "join", i |-> 0]
            /\ pc' = pc
    /\ UNCHANGED <<tools, initial, log, resLock, resPoisoned, regLock, regPoisoned,
                   artist_tools, total_artists, overflow_checks, stdout, last>>

\* main: handle.join().expect("Thread panicked") for the next handle, then "End".
Join ==
    /\ main.pc = "join"
    /\ IF main.i < total_artists
       THEN /\ pc[main.i] \in {"done", "panicked"}
            /\ main' = IF pc[main.i] = "done"
                       THEN [main EXCEPT !.i = main.i + 1]
                       ELSE [main EXCEPT !.pc = "panicked"]
       ELSE main' = [main EXCEPT !.pc = "end"]
    /\ UNCHANGED <<tools, initial, log, resLock, resPoisoned, regLock, regPoisoned, pc,
                   artist_tools, total_artists, overflow_checks, stdout, last>>

\* Mutant of LockResources: lock() returns a guard although another thread
\* holds one.
LockResourcesNoWait(a) ==
    /\ pc[a] = "start"
    /\ IF resPoisoned
       THEN /\ pc' = [pc EXCEPT ![a] = "panicked"]
            /\ resLock' = resLock
       ELSE /\ pc' = [pc EXCEPT ![a] = "snapshot"]
            /\ resLock' = a
    /\ UNCHANGED <<tools, initial, log, resPoisoned, regLock, regPoisoned,
                   artist_tools, main, total_artists, overflow_checks, stdout, last>>

\* Mutant of LockResources: a poisoned mutex is taken all the same
\* (lock().unwrap_or_else(|e| e.into_inner())).
LockResourcesIgnorePoison(a) ==
    /\ pc[a] = "start"
    /\ resLock = NoOne
    /\ pc' = [pc EXCEPT ![a] = "snapshot"]
    /\ resLock' = a
    /\ UNCHANGED <<tools, initial, log, resPoisoned, regLock, regPoisoned,
                   artist_tools, main, total_artists, overflow_checks, stdout, last>>

\* artis_task: resources.lock().expect("Failed to lock resources")
LockResources(a) ==
    /\ pc[a] = "start"
    /\ resLock = NoOne
    /\ IF resPoisoned
       THEN /\ pc' = [pc EXCEPT ![a] = "panicked"]
            /\ resLock' = resLock
       ELSE /\ pc' = [pc EXCEPT ![a] = "snapshot"]
            /\ resLock' = a
    /\ UNCHANGED <<tools, initial, log, resPoisoned, regLock, regPoisoned,
                   artist_tools, main, total_artists, overflow_checks, stdout, last>>

\* Mutant of Select: the pool guard outlives the block, so the artist still
\* holds the pool mutex when it goes on to register.
SelectKeepsLock(a) ==
    /\ pc[a] = "snapshot"
    /\ resLock = a
    /\ \E r \in tools_usage(a, tools) :
          artist_tools' = [artist_tools EXCEPT ![a] = r[2]]
    /\ pc' = [pc EXCEPT ![a] = "selected"]
    /\ UNCHANGED <<tools, initial, log, resLock, resPoisoned, regLock, regPoisoned,
                   main, total_artists, overflow_checks, stdout, last>>

\* artis_task: artist_tools = tools_usage(id, &resources.tools), then the guard
\* is dropped at the end of the block.
Select(a) ==
    /\ pc[a] = "snapshot"
    /\ resLock = a
    /\ \E r \in tools_usage(a, tools) :
          artist_tools' = [artist_tools EXCEPT ![a] = r[2]]
    /\ resLock' = NoOne
    /\ pc' = [pc EXCEPT ![a] = "selected"]
    /\ UNCHANGED <<tools, initial, log, resPoisoned, regLock, regPoisoned,
                   main, total_artists, overflow_checks, stdout, last>>

\* Mutant of LockRegistry: lock() returns a guard although another thread
\* holds one.
LockRegistryNoWait(a) ==
    /\ pc[a] = "selected"
    /\ IF regPoisoned
       THEN /\ pc' = [pc EXCEPT ![a] = "panicked"]
            /\ regLock' = regLock
       ELSE /\ pc' = [pc EXCEPT ![a] = "registry"]
            /\ regLock' = a
    /\ UNCHANGED <<tools, initial, log, resLock, resPoisoned, regPoisoned,
                   artist_tools, main, total_artists, overflow_checks, stdout, last>>

\* artis_task: artist_tool_registry.lock().expect("Failed to lock registry")
LockRegistry(a) ==
    /\ pc[a] = "selected"
    /\ regLock = NoOne
    /\ IF regPoisoned
       THEN /\ pc' = [pc EXCEPT ![a] = "panicked"]
            /\ regLock' = regLock
       ELSE /\ pc' = [pc EXCEPT ![a] = "registry"]
            /\ regLock' = a
    /\ UNCHANGED <<tools, initial, log, resLock, resPoisoned, regPoisoned,
                   artist_tools, main, total_artists, overflow_checks, stdout, last>>

\* Mutant of Push: the record is inserted at the front of the log.
PushFront(a) ==
    /\ pc[a] = "registry"
    /\ regLock = a
    /\ log' = <<Preferences(a, artist_tools[a])>> \o log
    /\ pc' = [pc EXCEPT ![a] = "pushed"]
    /\ UNCHANGED <<tools, initial, resLock, resPoisoned, regLock, regPoisoned,
                   artist_tools, main, total_artists, overflow_checks, stdout, last>>

\* Mutant of Push: the registry guard is dropped as soon as the record is
\* pushed.
PushReleases(a) ==
    /\ pc[a] = "registry"
    /\ regLock = a
    /\ log' = Append(log, Preferences(a, artist_tools[a]))
    /\ pc' = [pc EXCEPT ![a] = "pushed"]
    /\ regLock' = NoOne
    /\ UNCHANGED <<tools, initial, resLock, resPoisoned, regPoisoned,
                   artist_tools, main, total_artists, overflow_checks, stdout, last>>

\* Mutant of Push: the record is pushed twice.
PushTwice(a) ==
    /\ pc[a] = "registry"
    /\ regLock = a
    /\ log' = log \o <<Preferences(a, artist_tools[a]), Preferences(a, artist_tools[a])>>
    /\ pc' = [pc EXCEPT ![a] = "pushed"]
    /\ UNCHANGED <<tools, initial, resLock, resPoisoned, regLock, regPoisoned,
                   artist_tools, main, total_artists, overflow_checks, stdout, last>>

\* Mutant of Push: the record is pushed to a clone of the log, so the log
\* itself does not get it.
PushToClone(a) ==
    /\ pc[a] = "registry"
    /\ regLock = a
    /\ pc' = [pc EXCEPT ![a] = "pushed"]
    /\ UNCHANGED <<tools, initial, log, resLock, resPoisoned, regLock, regPoisoned,
                   artist_tools, main, total_artists, overflow_checks, stdout, last>>

\* tool_registry: self.artist_tool_preferences.push(..)
Push(a) ==
    /\ pc[a] = "registry"
    /\ regLock = a
    /\ log' = Append(log, Preferences(a, artist_tools[a]))
    /\ pc' = [pc EXCEPT ![a] = "pushed"]
    /\ UNCHANGED <<tools, initial, resLock, resPoisoned, regLock, regPoisoned,
                   artist_tools, main, total_artists, overflow_checks, stdout, last>>

\* Mutant of LockShared: when the pool cannot be locked the record pushed just
\* before is popped again.
LockSharedRollback(a) ==
    /\ pc[a] = "pushed"
    /\ resLock = NoOne
    /\ IF resPoisoned
       THEN /\ stdout' = Append(stdout, [msg |-> "Error", tool |-> ""])
            /\ pc' = [pc EXCEPT ![a] = "registered"]
            /\ resLock' = resLock
            /\ log' = SubSeq(log, 1, Len(log) - 1)
       ELSE /\ stdout' = stdout
            /\ pc' = [pc EXCEPT ![a] = "update"]
            /\ resLock' = a
            /\ log' = log
    /\ UNCHANGED <<tools, initial, resPoisoned, regLock, regPoisoned,
                   artist_tools, main, total_artists, overflow_checks, last>>

\* tool_registry: if let Ok(..) = self.shared_resources.lock() {..} else {println!}
LockShared(a) ==
    /\ pc[a] = "pushed"
    /\ resLock = NoOne
    /\ IF resPoisoned
       THEN /\ stdout' = Append(stdout, [msg |-> "Error", tool |-> ""])
            /\ pc' = [pc EXCEPT ![a] = "registered"]
            /\ resLock' = resLock
       ELSE /\ stdout' = stdout
            /\ pc' = [pc EXCEPT ![a] = "update"]
            /\ resLock' = a
    /\ UNCHANGED <<tools, initial, log, resPoisoned, regLock, regPoisoned,
                   artist_tools, main, total_artists, overflow_checks, last>>

\* Mutant of TakeOut: the pool guard is not dropped when the withdrawal returns.
TakeOutKeepsLock(a) ==
    /\ pc[a] = "update"
    /\ resLock = a
    /\ LET r == take_out_resources(tools, artist_tools[a], overflow_checks) IN
          /\ tools' = r.tools
          /\ stdout' = stdout \o r.out
          /\ IF r.panicked
             THEN /\ pc' = [pc EXCEPT ![a] = "panicked"]
                  /\ resPoisoned' = TRUE
                  /\ regPoisoned' = TRUE
                  /\ regLock' = NoOne
                  /\ resLock' = NoOne
             ELSE /\ pc' = [pc EXCEPT ![a] = "registered"]
                  /\ UNCHANGED <<resPoisoned, regPoisoned, regLock, resLock>>
    /\ UNCHANGED <<initial, log, artist_tools, main, total_artists, overflow_checks, last>>

\* tool_registry: update_resources.take_out_resources(tools), then the pool
\* guard is dropped.  A panic inside unwinds through both guards: both mutexes
\* are poisoned and released, and the quantity that underflowed is not written.
TakeOut(a) ==
    /\ pc[a] = "update"
    /\ resLock = a
    /\ LET r == take_out_resources(tools, artist_tools[a], overflow_checks) IN
          /\ tools' = r.tools
          /\ stdout' = stdout \o r.out
          /\ resLock' = NoOne
          /\ IF r.panicked
             THEN /\ pc' = [pc EXCEPT ![a] = "panicked"]
                  /\ resPoisoned' = TRUE
                  /\ regPoisoned' = TRUE
                  /\ regLock' = NoOne
             ELSE /\ pc' = [pc EXCEPT ![a] = "registered"]
                  /\ UNCHANGED <<resPoisoned, regPoisoned, regLock>>
    /\ UNCHANGED <<initial, log, artist_tools, main, total_artists, overflow_checks, last>>

\* artis_task: simulate_task_delay() in a debug build, then the registry guard
\* is dropped at the end of the function.
Finish(a) ==
    /\ pc[a] = "registered"
    /\ regLock = a
    /\ regLock' = NoOne
    /\ pc' = [pc EXCEPT ![a] = "done"]
    /\ UNCHANGED <<tools, initial, log, resLock, resPoisoned, regPoisoned,
                   artist_tools, main, total_artists, overflow_checks, stdout, last>>

artis_task(a) ==
    \/ LockResources(a)
    \/ Select(a)
    \/ LockRegistry(a)
    \/ Push(a)
    \/ LockShared(a)
    \/ TakeOut(a)
    \/ Finish(a)

Next ==
    \/ Spawn
    \/ Join
    \/ \E a \in Artists : artis_task(a)

Spec == Init /\ [][Next]_vars

\* The threaded program on the pools of MIN_REQUIRED_TOOLS tools.
InitFair ==
    \E c \in Configs(1) :
        /\ c[2] = MIN_REQUIRED_TOOLS
        /\ InitThreads(DefaultTools(c[2], c[3]), c[1])

\* The scheduler keeps running some thread that can run (main, or an artist
\* that is not blocked on a mutex held by another thread).
FairSpec == InitFair /\ [][Next]_vars /\ WF_vars(Next)

\* The end-to-end scenario: one resource "brush" at stock 10, five artists.
InitBrush == InitThreads(<<<<"brush", 10>>>>, 5)

SpecBrush == InitBrush /\ [][Next]_vars

\* artis_task: tools_usage panics (thread_rng() without an entropy source,
\* println! on a stdout that cannot be written) while the snapshot guard is
\* held: the pool mutex is poisoned and released, the thread is gone.
SelectPanics(a) ==
    /\ pc[a] = "snapshot"
    /\ resLock = a
    /\ pc' = [pc EXCEPT ![a] = "panicked"]
    /\ resLock' = NoOne
    /\ resPoisoned' = TRUE
    /\ UNCHANGED <<tools, initial, log, regLock, regPoisoned, artist_tools, main,
                   total_artists, overflow_checks, stdout, last>>

NextPanic ==
    \/ Next
    \/ \E a \in Artists : SelectPanics(a)

\* The configuration also allows TOTAL_ITEMS = 0.
InitZero == \E c \in Configs(0) : InitThreads(DefaultTools(c[2], c[3]), c[1])

SpecZero == InitZero /\ [][Next]_vars

\* The threaded program with both sources of a poisoned mutex: the underflow
\* of a stock of 0 in a debug build, and a panic inside tools_usage.
SpecPanic == InitZero /\ [][NextPanic]_vars

\* The constants as shipped.
TOTAL_ARTISTS == 1
TOTAL_ITEMS == 10

\* Configurations around TOTAL_ARTISTS < TOTAL_ITEMS: n artists on a stock of
\* n or n + 1, and the program as shipped (one artist, the ten tools of
\* SharedResources::default() at stock TOTAL_ITEMS).
InitAmple ==
    \/ \E n \in 1 .. MaxExtra, kinds \in MIN_REQUIRED_TOOLS .. (MIN_REQUIRED_TOOLS + 1),
          items \in 1 .. (MaxExtra + 1) :
           /\ items \in {n, n + 1}
           /\ InitThreads(DefaultTools(kinds, items), n)
    \/ InitThreads(DefaultTools(Len(ToolNames), TOTAL_ITEMS), TOTAL_ARTISTS)

SpecAmple == InitAmple /\ [][Next]_vars

\* The threaded program on a stock of at least 1, where only a panic inside
\* tools_usage poisons a mutex, and only the pool mutex.
SpecPoison == Init /\ [][NextPanic]_vars

-----------------------------------------------------------------------------
(* Direct calls on one pool and one registry, as in mod tests *)

\* The names a caller may pass: the names a pool of these calls can hold, and
\* one more name that none of them holds.
NameSeqs ==
    UNION { [1 .. n -> { ToolNames[i] : i \in 1 .. (MIN_REQUIRED_TOOLS + 1) }] :
              n \in 0 .. MaxLen }

\* The ids a caller may pass.
Ids == 0 .. 1

InitUnit ==
    /\ \E kinds \in 1 .. MIN_REQUIRED_TOOLS, items \in 1 .. MIN_REQUIRED_TOOLS :
          /\ tools = DefaultTools(kinds, items)
          /\ initial = tools
    /\ log = <<>>
    /\ resLock = NoOne
    /\ resPoisoned = FALSE
    /\ regLock = NoOne
    /\ regPoisoned = FALSE
    /\ pc = [a \in Artists |-> "unspawned"]
    /\ artist_tools = [a \in Artists |-> <<>>]
    /\ main = [pc |-> "test", i |-> 0]
    /\ total_artists = 0
    /\ overflow_checks \in BOOLEAN
    /\ stdout = <<>>
    /\ last = NoCall

\* What a direct call leaves in `last`: its name, arguments and the state it
\* started from.
Call(op, id, names) ==
    [op |-> op, id |-> id, names |-> names, tools |-> tools, log |-> log,
     stdout |-> stdout]

\* resources.take_out_resources(names)
CallTakeOut(names) ==
    /\ main.pc = "test"
    /\ Len(log) + Len(stdout) < MaxCalls
    /\ LET r == take_out_resources(tools, names, overflow_checks) IN
          /\ tools' = r.tools
          /\ stdout' = stdout \o r.out
          /\ main' = IF r.panicked THEN [main EXCEPT !.pc = "panicked"] ELSE main
    /\ last' = Call("take_out_resources", 0, names)
    /\ UNCHANGED <<initial, log, resLock, resPoisoned, regLock, regPoisoned, pc,
                   artist_tools, total_artists, overflow_checks>>

\* registry.tool_registry(id, names)
tool_registry(id, names) ==
    /\ main.pc = "test"
    /\ Len(log) + Len(stdout) < MaxCalls
    /\ log' = Append(log, Preferences(id, names))
    /\ IF resPoisoned
       THEN /\ stdout' = Append(stdout, [msg |-> "Error", tool |-> ""])
            /\ UNCHANGED <<tools, main>>
       ELSE LET r == take_out_resources(tools, names, overflow_checks) IN
               /\ tools' = r.tools
               /\ stdout' = stdout \o r.out
               /\ main' = IF r.panicked THEN [main EXCEPT !.pc = "panicked"] ELSE main
    /\ last' = Call("tool_registry", id, names)
    /\ UNCHANGED <<initial, resLock, resPoisoned, regLock, regPoisoned, pc,
                   artist_tools, total_artists, overflow_checks>>

NextUnit ==
    \/ \E names \in NameSeqs : CallTakeOut(names)
    \/ \E id \in Ids, names \in NameSeqs : tool_registry(id, names)

SpecUnit == InitUnit /\ [][NextUnit]_vars

-----------------------------------------------------------------------------
(* Vocabulary of the properties *)

KindNames == { ToolNames[i] : i \in 1 .. Len(ToolNames) }

\* The count of `name` in pool ts, 0 when ts has no entry of that name.
Qty(ts, name) == IF Position(ts, name) = 0 THEN 0 ELSE ts[Position(ts, name)][2]

\* How many times the records of lg request `name`.
Requested(lg, name) ==
    Cardinality({ p \in UNION { {i} \X DOMAIN lg[i].preferred_tools : i \in DOMAIN lg } :
                    lg[p[1]].preferred_tools[p[2]] = name })

\* How many Warning lines of out are about `name`.
Warned(out, name) ==
    Cardinality({ i \in DOMAIN out : out[i] = [msg |-> "Warning", tool |-> name] })

\* The withdrawals of `name` that found the entry.
Found(name) == Requested(log, name) - Warned(stdout, name)

Spawned == 0 .. (total_artists - 1)
AllDone == main.pc \in {"join", "end"} /\ \A a \in Spawned : pc[a] = "done"

\* The entries of ts whose name is not `name`, in order.
Others(ts, name) == SelectSeq(ts, LAMBDA e : e[1] # name)

-----------------------------------------------------------------------------
\* C1: with any number of artists on one pool, in every interleaving every
\* count stays between 0 and its initial stock, and once all artists have
\* finished each count is the initial stock minus the withdrawals of that name
\* that found the entry, the entry being absent when that difference is 0.
C1_NoLostWithdrawal ==
    /\ \A i \in DOMAIN tools : tools[i][2] >= 0 /\ tools[i][2] <= Qty(initial, tools[i][1])
    /\ AllDone =>
         \A name \in KindNames :
            /\ Qty(tools, name) = Qty(initial, name) - Found(name)
            /\ Qty(initial, name) - Found(name) = 0 => Position(tools, name) = 0

\* Two artists both withdrew the same name and found it, and all have finished.
C1_Witness ==
    /\ AllDone
    /\ total_artists >= 2
    /\ \E name \in KindNames :
          /\ Found(name) >= 2
          /\ \A i \in DOMAIN log : \E j \in DOMAIN log[i].preferred_tools :
                log[i].preferred_tools[j] = name

\* C2: on a pool holding "brush" at stock 10 with 5 artists, each artist
\* registers exactly <<"brush">>, and every interleaving ends with "brush" at
\* stock 5 and a log of exactly 5 records, each in state TakeOut.
C2_BrushScenario ==
    /\ \A i \in DOMAIN log : log[i].preferred_tools = <<"brush">>
    /\ AllDone =>
         /\ tools = <<<<"brush", 5>>>>
         /\ Len(log) = 5
         /\ \A i \in DOMAIN log : log[i].state = "TakeOut"

\* The five artists have finished and main has printed "End".
C2_Witness ==
    /\ main.pc = "end"
    /\ total_artists = 5
    /\ \A a \in 0 .. 4 : pc[a] = "done"
    /\ Qty(initial, "brush") = 10

\* C3: take_out_resources of one name that is present with count C > 0 leaves
\* the entry in place with count C - 1 when C - 1 > 0, removes it when
\* C - 1 = 0, and leaves every other entry with its name, count and order.
C3_DecrementOrRemove ==
    (/\ last.op = "take_out_resources"
     /\ Len(last.names) = 1
     /\ Qty(last.tools, last.names[1]) > 0)
    => LET name == last.names[1]
           pos == Position(last.tools, name)
           c == Qty(last.tools, name)
       IN /\ c - 1 > 0 => /\ Len(tools) = Len(last.tools)
                          /\ tools[pos] = <<name, c - 1>>
          /\ c - 1 = 0 => /\ Len(tools) = Len(last.tools) - 1
                          /\ Position(tools, name) = 0
          /\ Others(tools, name) = Others(last.tools, name)

\* A single-name withdrawal removed an entry that was not the last of the pool.
C3_Witness ==
    /\ last.op = "take_out_resources"
    /\ Len(last.names) = 1
    /\ Qty(last.tools, last.names[1]) = 1
    /\ Position(last.tools, last.names[1]) < Len(last.tools)

\* C4: for every id and every name sequence (empty, or with names the pool
\* does not hold), one call of tool_registry makes the log one record longer,
\* keeps the earlier records, and the new last record carries the id, the
\* names in the given order, and state TakeOut.
C4_RegisterAppends ==
    last.op = "tool_registry"
    => /\ Len(log) = Len(last.log) + 1
       /\ SubSeq(log, 1, Len(last.log)) = last.log
       /\ log[Len(log)].artist_id = last.id
       /\ log[Len(log)].preferred_tools = last.names
       /\ log[Len(log)].state = "TakeOut"

\* A second registration, for id 1, with two names of which the pool lacks one.
C4_Witness ==
    /\ last.op = "tool_registry"
    /\ last.id = 1
    /\ Len(last.log) = 1
    /\ Len(last.names) = 2
    /\ last.names[1] # last.names[2]
    /\ \E i \in 1 .. 2 : Position(last.tools, last.names[i]) = 0

\* C5: take_out_resources of one name the pool does not hold leaves the pool
\* as it was (entries, counts, order), prints one Warning about that name and
\* does not panic.
C5_AbsentIsNoOp ==
    (/\ last.op = "take_out_resources"
     /\ Len(last.names) = 1
     /\ Position(last.tools, last.names[1]) = 0)
    => /\ tools = last.tools
       /\ stdout = Append(last.stdout, [msg |-> "Warning", tool |-> last.names[1]])
       /\ main.pc = "test"

\* An absent name was withdrawn from a pool that holds other entries.
C5_Witness ==
    /\ last.op = "take_out_resources"
    /\ Len(last.names) = 1
    /\ Position(last.tools, last.names[1]) = 0
    /\ Len(last.tools) >= 1

\* C6: from every initial pool the configuration allows (stock >= 0) and after
\* any withdrawals, no pool entry has count 0, no count underflows (none
\* exceeds its initial stock) and no withdrawal panics on a decrement of 0.
C6_NoZeroEntryNoUnderflow ==
    /\ \A i \in DOMAIN tools :
          /\ tools[i][2] >= 0
          /\ tools[i][2] # 0
          /\ tools[i][2] <= Qty(initial, tools[i][1])
    /\ \A a \in Artists : pc[a] # "panicked"

\* C7: every selection step returns K names with
\* MIN_REQUIRED_TOOLS <= K <= MAX_ALLOWED_TOOLS, pairwise distinct, each the
\* name of an entry of the pool that was read.
C7_SelectionBounds ==
    [][\A a \in Artists :
          (pc[a] = "snapshot" /\ pc'[a] = "selected")
          => LET sel == artist_tools'[a] IN
             /\ MIN_REQUIRED_TOOLS <= Len(sel)
             /\ Len(sel) <= MAX_ALLOWED_TOOLS
             /\ \A i, j \in DOMAIN sel : i # j => sel[i] # sel[j]
             /\ \A i \in DOMAIN sel : Position(tools, sel[i]) # 0]_vars

\* C8: under fair scheduling there is no deadlock: every spawned artist
\* eventually finishes (so it got past each lock() it blocked on: snapshot,
\* registry, withdrawal), main eventually prints "End", and it does so only
\* when all artists have finished.
C8_NoDeadlock ==
    /\ \A a \in 0 .. MaxExtra : (pc[a] = "start") ~> (pc[a] = "done")
    /\ <>(main.pc = "end")
    /\ [](main.pc = "end" => \A a \in Spawned : pc[a] = "done")

\* One artist waits for the pool mutex inside tool_registry, holding the
\* registry mutex, while another holds the pool mutex for its snapshot.
C8_Witness ==
    \E a, b \in Spawned :
        /\ a # b
        /\ pc[a] = "pushed"
        /\ pc[b] = "snapshot"
        /\ resLock = b
        /\ regLock = a

\* C9: the log never holds two records with the same artist id, and once all
\* artists 0..N-1 have finished it holds exactly one record for each of them.
C9_OneRecordPerArtist ==
    /\ \A i, j \in DOMAIN log : i # j => log[i].artist_id # log[j].artist_id
    /\ AllDone =>
         /\ Len(log) = total_artists
         /\ { log[i].artist_id : i \in DOMAIN log } = Spawned

\* Two artists have finished and both have their record.
C9_Witness ==
    /\ AllDone
    /\ total_artists >= 2
    /\ Len(log) >= 2

\* C10: the pool never reflects a withdrawal whose record is not yet in the
\* log: an artist that holds the pool for its withdrawal, or is past it, has
\* its record in the log, and the units missing from the pool never exceed the
\* requests the log records.
C10_LogBeforePool ==
    /\ \A a \in Artists :
          pc[a] \in {"update", "registered", "done"}
          => \E i \in DOMAIN log : log[i].artist_id = a
    /\ \A name \in KindNames :
          Qty(initial, name) - Qty(tools, name) <= Requested(log, name)

\* The first registration has finished its withdrawal: the artist's record is
\* the one record of the log, it names at least one tool, and the pool has lost
\* exactly one unit of each tool it names.
C10_Witness ==
    \E a \in Spawned :
        /\ pc[a] = "registered"
        /\ Len(log) = 1
        /\ log[1].artist_id = a
        /\ log[1].preferred_tools # <<>>
        /\ \A i \in DOMAIN log[1].preferred_tools :
              Qty(tools, log[1].preferred_tools[i]) = Qty(initial, log[1].preferred_tools[i]) - 1


-----------------------------------------------------------------------------
\* The step in which artist a leaves position p.
Leaves(a, p) == pc[a] = p /\ pc'[a] # p

ErrorLine == [msg |-> "Error", tool |-> ""]

\* C11: when tool_registry finds the pool mutex poisoned it prints the Error
\* line, the record it has just pushed stays the last record of the log, and
\* the pool is left as it was.
C11_PoisonedPoolKeepsRecord ==
    [][\A a \in Artists :
          (Leaves(a, "pushed") /\ resPoisoned)
          => /\ stdout' = Append(stdout, ErrorLine)
             /\ log' = log
             /\ log'[Len(log')] = Preferences(a, artist_tools[a])
             /\ tools' = tools]_vars

\* An artist is back from tool_registry with the Error line printed last, its
\* record last in the log and the pool as it was built.
C11_Witness ==
    \E a \in Spawned :
        /\ pc[a] = "registered"
        /\ resPoisoned
        /\ stdout # <<>>
        /\ stdout[Len(stdout)] = ErrorLine
        /\ log[Len(log)].artist_id = a
        /\ log[Len(log)].preferred_tools # <<>>
        /\ tools = initial

\* C12 as stated: an artist that finds the pool mutex or the registry mutex
\* poisoned at any of its three lock() calls fails, and main does not print
\* "End".
C12_LockFailureFailsTask ==
    [][/\ \A a \in Artists :
             \/ Leaves(a, "start") /\ resPoisoned
             \/ Leaves(a, "selected") /\ regPoisoned
             \/ Leaves(a, "pushed") /\ resPoisoned
             => pc'[a] = "panicked"
       /\ main'.pc = "end" => ~resPoisoned' /\ ~regPoisoned']_vars

\* C12 as amended: at the two lock() calls of artis_task (snapshot, registry)
\* a poisoned mutex fails the artist; at the lock() inside tool_registry it
\* does not, the artist returns from tool_registry and goes on; main never
\* prints "End" once a mutex is poisoned.
C12_LockFailureAmended ==
    [][/\ \A a \in Artists :
             /\ Leaves(a, "start") /\ resPoisoned => pc'[a] = "panicked"
             /\ Leaves(a, "selected") /\ regPoisoned => pc'[a] = "panicked"
             /\ Leaves(a, "pushed") /\ resPoisoned => pc'[a] = "registered"
       /\ main'.pc = "end" => ~resPoisoned' /\ ~regPoisoned']_vars

\* One artist finished although tool_registry found the pool mutex poisoned,
\* another one failed at its snapshot lock(), and main has failed at a join.
C12_Witness ==
    /\ main.pc = "panicked"
    /\ resPoisoned
    /\ ~regPoisoned
    /\ \E i \in DOMAIN stdout : stdout[i] = ErrorLine
    /\ \E a, b \in Spawned :
          /\ pc[a] = "done"
          /\ pc[b] = "panicked"
          /\ artist_tools[b] = <<>>


\* The artists inside a block that holds a guard of the pool mutex: the
\* snapshot block of artis_task and the Ok branch of tool_registry.
PoolHolders == { a \in Artists : pc[a] \in {"snapshot", "update"} }

\* The names of a sequence of tool names.
Names(names) == { names[i] : i \in DOMAIN names }

\* C13: in every reachable state at most one artist is inside a block guarded
\* by the pool mutex and it is the holder of the mutex; every step that
\* changes the pool and every snapshot read (tools_usage) is a step of the
\* artist holding the pool mutex.
C13_PoolLockExclusive ==
    [][/\ Cardinality(PoolHolders) <= 1
       /\ Cardinality(PoolHolders') <= 1
       /\ \A a \in PoolHolders : resLock = a
       /\ \A a \in PoolHolders' : resLock' = a
       /\ tools' # tools => \E a \in Artists : resLock = a /\ Leaves(a, "update")
       /\ \A a \in Artists :
             artist_tools'[a] # artist_tools[a] => resLock = a /\ Leaves(a, "snapshot")]_vars

\* One artist withdraws under the pool mutex from a pool that was already
\* changed, while another one waits for the mutex to take its snapshot.
C13_Witness ==
    \E a, b \in Spawned :
        /\ a # b
        /\ pc[a] = "update"
        /\ resLock = a
        /\ pc[b] = "start"
        /\ tools # initial

\* C14: the snapshot read and the withdrawal are two critical sections: between
\* them the artist does not hold the pool mutex, and a withdrawal prints a
\* Warning exactly for the names it selected from its snapshot that other
\* artists have removed from the pool in between.
C14_SeparateSections ==
    [][\A a \in Artists :
          /\ pc[a] \in {"selected", "registry", "pushed"} => resLock # a
          /\ Leaves(a, "update")
             => /\ SubSeq(stdout', 1, Len(stdout)) = stdout
                /\ \A n \in KindNames :
                      Warned(stdout', n) - Warned(stdout, n)
                      = IF n \in Names(artist_tools[a]) /\ Position(tools, n) = 0
                        THEN 1 ELSE 0]_vars

\* With two artists, one is back from a withdrawal whose last Warning is about
\* a name it had selected from its snapshot, the other one has withdrawn it.
C14_Witness ==
    /\ total_artists >= 2
    /\ \E a, b \in Spawned :
          /\ a # b
          /\ pc[a] = "registered"
          /\ pc[b] = "done"
          /\ stdout # <<>>
          /\ stdout[Len(stdout)].msg = "Warning"
          /\ stdout[Len(stdout)].tool \in Names(artist_tools[a]) \cap Names(artist_tools[b])
          /\ Qty(initial, stdout[Len(stdout)].tool) = 1


\* C15 as stated: in every reachable state no artist holds both the pool
\* mutex and the registry mutex.
C15_AtMostOneLock ==
    \A a \in Artists : ~(resLock = a /\ regLock = a)

\* C15 as amended: the locks are taken in the order pool (snapshot), release,
\* registry, pool (withdrawal); an artist holds both mutexes exactly during
\* the withdrawal, which is nested in the registry guard; it holds the pool
\* mutex alone only for its snapshot, and never takes the registry mutex
\* while it holds the pool mutex.
C15_LockOrderAmended ==
    [][\A a \in Artists :
          /\ resLock = a /\ regLock = a <=> pc[a] = "update"
          /\ resLock = a /\ regLock # a <=> pc[a] = "snapshot"
          /\ regLock = a <=> pc[a] \in {"registry", "pushed", "update", "registered"}
          /\ resLock' = a /\ resLock # a
             => \/ pc[a] = "start" /\ regLock # a /\ pc'[a] = "snapshot"
                \/ pc[a] = "pushed" /\ regLock = a /\ pc'[a] = "update"
          /\ regLock' = a /\ regLock # a
             => pc[a] = "selected" /\ resLock # a /\ pc'[a] = "registry"]_vars

\* An artist withdraws holding both mutexes while another one, past its
\* snapshot, waits for the registry mutex.
C15_Witness ==
    \E a, b \in Spawned :
        /\ a # b
        /\ pc[a] = "update"
        /\ resLock = a
        /\ regLock = a
        /\ pc[b] = "selected"

\* How many of the first k names are n.
Occ(names, n, k) == Cardinality({ i \in 1 .. k : names[i] = n })

\* C16: take_out_resources goes through all its names whatever is not found:
\* every count drops by the number of times its name is given, down to 0 where
\* the entry is removed, the entries left keep their order, and a Warning is
\* printed for each name, in order, given more often so far than it was in
\* stock.
C16_NotFoundContinues ==
    last.op = "take_out_resources"
    => LET names == last.names
           left == [i \in DOMAIN last.tools |->
                      <<last.tools[i][1],
                        Max(0, last.tools[i][2] - Occ(names, last.tools[i][1], Len(names)))>>]
           missed == SelectSeq([i \in DOMAIN names |-> i],
                               LAMBDA i : Occ(names, names[i], i - 1)
                                          >= Qty(last.tools, names[i]))
       IN /\ tools = SelectSeq(left, LAMBDA e : e[2] > 0)
          /\ stdout = last.stdout
                      \o [k \in DOMAIN missed |-> [msg |-> "Warning", tool |-> names[missed[k]]]]
          /\ main.pc = "test"

\* A withdrawal of a name the pool lacks followed by a name it holds.
C16_Witness ==
    /\ last.op = "take_out_resources"
    /\ Len(last.names) = 2
    /\ Position(last.tools, last.names[1]) = 0
    /\ Position(last.tools, last.names[2]) # 0
    /\ Qty(tools, last.names[2]) = Qty(last.tools, last.names[2]) - 1


\* C17: the log only grows at its end: on every step the log before the step
\* is a prefix of the log after it.
C17_AppendOnly ==
    [][/\ Len(log') >= Len(log)
       /\ SubSeq(log', 1, Len(log)) = log]_vars

\* Two artists have registered and finished; the first record is still the
\* one of the artist that registered first, whose withdrawal came first.
C17_Witness ==
    /\ Len(log) = 2
    /\ log[1].artist_id # log[2].artist_id
    /\ log[1].preferred_tools # log[2].preferred_tools
    /\ \A a \in Spawned : pc[a] = "done"
    /\ main.pc = "end"

\* C18: whenever the registry mutex is free and no mutex is poisoned, the
\* count of every tool in the pool (0 when it has no entry) is its initial
\* stock minus the number of times the records of the log name it, or 0 when
\* the log names it more often than that.
C18_LogAgreesWithPool ==
    (regLock = NoOne /\ ~resPoisoned /\ ~regPoisoned)
    => \A name \in KindNames :
          Qty(tools, name) = Max(0, Qty(initial, name) - Requested(log, name))

\* The registry mutex is free, one tool has been requested more often than it
\* was in stock and is gone, another one has not been requested and is there.
C18_Witness ==
    /\ regLock = NoOne
    /\ ~resPoisoned
    /\ Len(log) >= 2
    /\ \E name \in KindNames :
          /\ Qty(initial, name) > 0
          /\ Requested(log, name) > Qty(initial, name)
          /\ Position(tools, name) = 0
    /\ \E name \in KindNames :
          /\ Requested(log, name) = 0
          /\ Qty(tools, name) > 0

\* The artists that have pushed their record and not finished their withdrawal.
InRegistration == { a \in Artists : pc[a] \in {"pushed", "update"} }

\* The pool and the lines printed after the withdrawals of the first k records
\* of lg, one after the other, from the initial pool.
RECURSIVE Replay(_, _)
Replay(lg, k) ==
    IF k = 0 THEN [tools |-> initial, out |-> <<>>, panicked |-> FALSE]
    ELSE TakeOutLoop(Replay(lg, k - 1), lg[k].preferred_tools, overflow_checks)

\* C19: at most one artist at a time is between the push of its record and
\* the end of its withdrawal, it holds the registry mutex and its record is the
\* last of the log; as long as the pool mutex is not poisoned, the pool and
\* the lines printed are those of the withdrawals of the records before it,
\* made one after the other in the order of the log.
C19_RegistrationsSerialized ==
    /\ Cardinality(InRegistration) <= 1
    /\ \A a \in InRegistration :
          /\ regLock = a
          /\ log # <<>>
          /\ log[Len(log)].artist_id = a
    /\ ~resPoisoned
       => LET k == Len(log) - Cardinality(InRegistration) IN
             /\ tools = Replay(log, k).tools
             /\ stdout = Replay(log, k).out

\* An artist has pushed its record and is at its withdrawal while another
\* one, which selected one of the same tools, waits for the registry mutex.
C19_Witness ==
    \E a, b \in Spawned :
        /\ a # b
        /\ ~resPoisoned
        /\ pc[a] = "update"
        /\ pc[b] = "selected"
        /\ log[Len(log)].artist_id = a
        /\ Names(artist_tools[a]) \cap Names(artist_tools[b]) # {}


\* Every tool is in stock more often than there are artists.
Ample == \A i \in DOMAIN initial : total_artists < initial[i][2]

\* The artists whose withdrawal has returned.
Withdrawn == { a \in Spawned : pc[a] \in {"registered", "done"} }

\* C20: when there are fewer artists than the initial stock of every tool, in
\* every interleaving no Warning is printed, the pool keeps all its entries
\* in their order, no artist selects a tool twice, and the count of a tool is
\* its stock minus the number of artists that selected it and have withdrawn:
\* each artist takes each tool at most once.
C20_AmpleStock ==
    Ample
    => /\ stdout = <<>>
       /\ Len(tools) = Len(initial)
       /\ \A a \in Spawned :
             \A i, j \in DOMAIN artist_tools[a] :
                 i # j => artist_tools[a][i] # artist_tools[a][j]
       /\ \A i \in DOMAIN initial :
             /\ tools[i][1] = initial[i][1]
             /\ tools[i][2] >= 1
             /\ initial[i][2] - tools[i][2]
                = Cardinality({ a \in Withdrawn : initial[i][1] \in Names(artist_tools[a]) })

\* Ten tools at stock 10, as shipped: the artist withdrew MAX_ALLOWED_TOOLS of
\* them, once each, and main printed "End".
C20_WitnessShipped ==
    /\ Ample
    /\ total_artists = TOTAL_ARTISTS
    /\ Len(initial) = 10
    /\ main.pc = "end"
    /\ Cardinality({ i \in DOMAIN tools : tools[i][2] = TOTAL_ITEMS - 1 }) = MAX_ALLOWED_TOOLS

\* Two artists on a stock of 3 have finished and one tool was taken by both.
C20_Witness ==
    /\ Ample
    /\ total_artists >= 2
    /\ main.pc = "end"
    /\ \E i \in DOMAIN initial : tools[i] = <<initial[i][1], initial[i][2] - 2>>

=============================================================================
